---- MODULE Spec2Model ----
(***************************************************************************)
(* Model of the backend process supervisor of src-tauri/src/backend.rs     *)
(* (struct BackendProcess: find_available_port, start, wait_for_backend,   *)
(* stop, Drop) and of the port accessor of src-tauri/src/main.rs.          *)
(*                                                                         *)
(* Spec drives one BackendProcess through its public operations in any     *)
(* order.  start() is a sequence of steps (pc is its position); it holds   *)
(* `&mut self`, so no other operation of the same BackendProcess runs      *)
(* until it has returned.  The spawned children are separate operating     *)
(* system processes: a child may exit by itself at any moment.  The        *)
(* outcomes of the system calls (bind, path resolution, directory          *)
(* creation, spawn, client construction, every HTTP request, kill) are     *)
(* inputs chosen by the environment.                                       *)
(*                                                                         *)
(* EnvSpec builds the child's environment for any data directory and port. *)
(* HostSpec is main(): the setup closure in a release or a debug build,    *)
(* with the time the health poll takes, and then the get_backend_port      *)
(* commands on the shared Mutex<BackendProcess>.                           *)
(***************************************************************************)
EXTENDS Naturals, FiniteSets, Sequences

VARIABLES
    child,      \* self.child: NoChild (None) or the id of the held Child
    port,       \* self.port: u16
    pc,         \* position of the thread of control; "idle": no call runs
    local_port, \* start()'s local `port` (result of find_available_port)
    listener,   \* port the allocator's TcpListener is bound to, 0: no socket
    attempt,    \* wait_for_backend's loop variable
    alive,      \* ids of the children of this BackendProcess that are running
    spawned,    \* ids of all children this BackendProcess has spawned
    dropped,    \* the BackendProcess has been destroyed
    lastCall,   \* the operation called last: "new", "start", "stop", "port", "drop"
    prevCall,   \* the operation called before that one
    result,     \* what the last call returned; tag "pending" while it runs
    done,       \* steps of start() executed by the current/last call
    requests,   \* HTTP requests sent by the current/last call
    sleeps,     \* thread::sleep calls made by the current/last call
    lastResp,   \* outcome of the last HTTP request of the current/last call
    callChild,  \* child spawned by the current/last call, NoChild if none
    ncalls,     \* operations called so far (the drop included)
    nstarts,    \* start() calls so far
    nOk,        \* start() calls that returned Ok so far
    readyPort,  \* value returned by the last start() if it returned Ok, else 0
    stopped,    \* stop() has been called explicitly after a start()
    kills,      \* kill signals sent (Child::kill calls)
    refused,    \* children whose kill returned an error
    childEnv,   \* environment given to the child spawned last, NoEnv if none
    failures,   \* requests of the current/last call that got no 2xx or 404
    envIn,      \* EnvSpec: a data directory and a port
    envOut,     \* EnvSpec: the environment built from envIn, NoEnv before
    debug_assertions, \* HostSpec: the build is a debug build
    setup,      \* HostSpec: position of main's setup closure, or how it ended
    setup_port, \* HostSpec: the local `port` of the setup closure
    window_port, \* HostSpec: window.__SUZENT_BACKEND_PORT__, 0 if not set
    owner,      \* HostSpec: the command holding the Mutex, 0 if none
    cmd,        \* HostSpec: position of each get_backend_port invocation
    elapsed     \* HostSpec: milliseconds spent in wait_for_backend

vars == <<child, port, pc, local_port, listener, attempt, alive, spawned,
          dropped, lastCall, prevCall, result, done, requests, sleeps,
          lastResp, callChild, ncalls, nstarts, nOk, readyPort, stopped, kills,
          refused, childEnv, failures, envIn, envOut,
          debug_assertions, setup, setup_port, window_port, owner, cmd,
          elapsed>>

\* The fields of a BackendProcess and the record of its calls.
bvars == <<child, port, pc, local_port, listener, attempt, alive, spawned,
           dropped, lastCall, prevCall, result, done, requests, sleeps,
           lastResp, callChild, ncalls, nstarts, nOk, readyPort, stopped,
           kills, refused, childEnv, failures>>

\* The variables of EnvSpec.
evars == <<envIn, envOut>>

\* The variables of HostSpec, but for the clock.
hfix == <<debug_assertions, setup, setup_port, window_port, owner, cmd>>

\* The variables of HostSpec.
hvars == <<hfix, elapsed>>

\* The variables that are no part of a BackendProcess and its calls.
nonApi == <<evars, hvars>>

\* ---------------------------------------------------------------- bounds
MaxCalls == 3     \* operations called on one BackendProcess
NumPorts == 2     \* distinct ports the operating system hands out
NumCallers == 2   \* concurrent invocations of get_backend_port
MaxDepth == 2     \* components of a data directory (EnvSpec)

\* ------------------------------------------------------------- constants
MaxAttempts == 60             \* for attempt in 1..=60
NotFound == 404               \* resp.status().as_u16() == 404
DelayMs == 500                \* thread::sleep(Duration::from_millis(500))
RequestTimeoutMs == 2000      \* .timeout(Duration::from_secs(2))
DebugPort == 8000             \* Ok((8000, BackendProcess::new()))

NoChild == 0
\* Non-zero ports the OS may assign (the first ports of the dynamic range).
PortSet == {49151 + i : i \in 1..NumPorts}
StatusSet == {200, 299, 300, 403, 404, 500}
TransportErrors == {"refused", "timeout"}
Responses == [kind : {"resp"}, code : StatusSet]
                \cup [kind : TransportErrors, code : {0}]
NoResp == [kind |-> "none", code |-> 0]

\* Results of a call.
Pending == [tag |-> "pending", val |-> 0, msg |-> ""]
Ok(v) == [tag |-> "ok", val |-> v, msg |-> ""]
Err(m) == [tag |-> "err", val |-> 0, msg |-> m]
Unit == [tag |-> "unit", val |-> 0, msg |-> ""]

\* Error strings of start(), by the step that produces them.
ErrPort == "Failed to find available port"
ErrResourceDir == "Failed to get resource dir"
ErrAppDataDir == "Failed to get app data dir"
ErrCreateDir == "Failed to create app data dir"
ErrSpawn == "Failed to start backend"
ErrClient == "Failed to create HTTP client"
ErrHealth == "Backend failed to start within 30 seconds"

\* ------------------------------------------------------- pure functions
\* http::StatusCode::is_success: 200 <= code < 300
IsSuccess(code) == code >= 200 /\ code < 300

\* Mutant of IsAlive: any HTTP response counts as alive.
IsAliveAnyStatus(r) == r.kind = "resp"

\* Mutant of IsAlive: only a success status counts, a 404 does not.
IsAliveSuccessOnly(r) == r.kind = "resp" /\ IsSuccess(r.code)

\* The test of wait_for_backend on one request's outcome.
IsAlive(r) == r.kind = "resp" /\ (IsSuccess(r.code) \/ r.code = NotFound)

\* A response with a 2xx or 404 status (what the request got, whatever
\* wait_for_backend makes of it).
Is2xxOr404(r) == r.kind = "resp" /\ (r.code \in 200..299 \/ r.code = 404)

\* ----------------------------------------------------- child environment
\* An absolute path is the sequence of its components, a relative path
\* likewise.  PathBuf::join with a relative path appends its components.
Join(base, rel) == base \o rel

\* u16::to_string: the decimal digits of n, most significant first.
DigitChars == <<"0", "1", "2", "3", "4", "5", "6", "7", "8", "9">>
RECURSIVE ToString(_)
ToString(n) ==
    IF n < 10 THEN <<DigitChars[n + 1]>>
    ELSE Append(ToString(n \div 10), DigitChars[(n % 10) + 1])

Loopback == "127.0.0.1"
NoEnv ==
    [SUZENT_PORT |-> <<>>, SUZENT_HOST |-> "", SUZENT_APP_DATA |-> <<>>,
     CHATS_DB_PATH |-> <<>>, LANCEDB_URI |-> <<>>,
     SANDBOX_DATA_PATH |-> <<>>, SKILLS_DIR |-> <<>>]

\* Mutant of ChildEnv: the vector store is put at the data directory
\* itself (the join is forgotten).
ChildEnvNoJoin(p, dir) ==
    [SUZENT_PORT |-> ToString(p),
     SUZENT_HOST |-> Loopback,
     SUZENT_APP_DATA |-> dir,
     CHATS_DB_PATH |-> Join(dir, <<"chats.db">>),
     LANCEDB_URI |-> dir,
     SANDBOX_DATA_PATH |-> Join(dir, <<"sandbox-data">>),
     SKILLS_DIR |-> Join(dir, <<"skills">>)]

\* The environment start() gives the child: the .env(..) calls.
ChildEnv(p, dir) ==
    [SUZENT_PORT |-> ToString(p),
     SUZENT_HOST |-> Loopback,
     SUZENT_APP_DATA |-> dir,
     CHATS_DB_PATH |-> Join(dir, <<"chats.db">>),
     LANCEDB_URI |-> Join(dir, <<"memory">>),
     SANDBOX_DATA_PATH |-> Join(dir, <<"sandbox-data">>),
     SKILLS_DIR |-> Join(dir, <<"skills">>)]

\* The data directory the app-paths provider answers for this install.
InstallDataDir == <<"home", "user", ".local", "share", "com.suzent.app">>

\* Data directories of other installs: absolute paths of up to MaxDepth
\* components, some with a space or a non-ASCII letter.
DirNames == {"home", "my data", "données"}
DataDirs == UNION {[1..n -> DirNames] : n \in 1..MaxDepth}

\* Ports of the whole u16 range.
EnvPorts == {1, 80, 8000, 49152, 65535}

\* ------------------------------------------------------------------ Init
\* BackendProcess::new(): no call made yet.
New ==
    /\ child = NoChild
    /\ port = 0
    /\ pc = "idle"
    /\ local_port = 0
    /\ listener = 0
    /\ attempt = 0
    /\ alive = {}
    /\ spawned = {}
    /\ dropped = FALSE
    /\ lastCall = "new"
    /\ prevCall = "new"
    /\ result = Unit
    /\ done = {}
    /\ requests = 0
    /\ sleeps = 0
    /\ lastResp = NoResp
    /\ callChild = NoChild
    /\ ncalls = 0
    /\ nstarts = 0
    /\ nOk = 0
    /\ readyPort = 0
    /\ stopped = FALSE
    /\ kills = 0
    /\ refused = {}
    /\ childEnv = NoEnv
    /\ failures = 0

\* The invocations of the get_backend_port command.
Callers == 1..NumCallers

\* The host application before main's setup closure has run.
NoHost ==
    /\ setup = "window"
    /\ setup_port = 0
    /\ window_port = 0
    /\ owner = 0
    /\ cmd = [t \in Callers |-> "idle"]
    /\ elapsed = 0

\* A new BackendProcess in the install's data directory.
Init ==
    /\ New
    /\ envIn = [dir |-> InstallDataDir, port |-> 0]
    /\ envOut = NoEnv
    /\ NoHost
    /\ debug_assertions = FALSE

\* ---------------------------------------------------------------- helpers
\* A caller may invoke an operation: nothing runs, the object exists.
CanCall == pc = "idle" /\ ~dropped /\ ncalls < MaxCalls

\* The history of the previous call is forgotten when a new call begins
\* (the loop variable of wait_for_backend is dead once it has returned).
NewCall(op) ==
    /\ lastCall' = op
    /\ prevCall' = lastCall
    /\ ncalls' = ncalls + 1
    /\ done' = {}
    /\ requests' = 0
    /\ sleeps' = 0
    /\ lastResp' = NoResp
    /\ callChild' = NoChild
    /\ attempt' = 0
    /\ failures' = 0

\* start() returns r to its caller.
StartReturns(r) ==
    /\ pc' = "idle"
    /\ result' = r
    /\ nOk' = IF r.tag = "ok" THEN nOk + 1 ELSE nOk
    /\ readyPort' = IF r.tag = "ok" THEN r.val ELSE 0

\* ----------------------------------------------------------------- start
\* A caller calls start(&mut self, app_handle).
StartCall ==
    /\ CanCall
    /\ NewCall("start")
    /\ pc' = "bind"
    /\ result' = Pending
    /\ nstarts' = nstarts + 1
    /\ readyPort' = 0
    /\ UNCHANGED <<child, port, local_port, listener, alive, spawned, dropped,
                   nOk, stopped, kills, refused,
                   childEnv>>

\* find_available_port: TcpListener::bind("127.0.0.1:0")
TcpListenerBind ==
    /\ pc = "bind"
    /\ done' = done \cup {"find_available_port"}
    /\ \/ \E p \in PortSet :
            /\ listener' = p
            /\ pc' = "local_addr"
            /\ UNCHANGED <<result, nOk, readyPort>>
       \/ /\ StartReturns(Err(ErrPort))
          /\ UNCHANGED listener
    /\ UNCHANGED <<child, port, local_port, attempt, alive, spawned, dropped,
                   lastCall, prevCall, requests, sleeps, lastResp, callChild, ncalls,
                   nstarts, stopped, kills, refused,
                   childEnv, failures>>

\* Mutant of ListenerLocalAddr: the listener outlives the call (it is bound
\* to a variable that is still in scope when the port is returned).
ListenerLocalAddrKeepsSocket ==
    /\ pc = "local_addr"
    /\ \/ /\ local_port' = listener
          /\ pc' = "store_port"
          /\ UNCHANGED <<listener, result, nOk, readyPort>>
       \/ /\ StartReturns(Err(ErrPort))
          /\ listener' = 0
          /\ UNCHANGED local_port
    /\ UNCHANGED <<child, port, attempt, alive, spawned, dropped, lastCall,
                   prevCall, done, requests, sleeps, lastResp, callChild,
                   ncalls, nstarts, stopped, kills, refused,
                   childEnv, failures>>

\* find_available_port: .and_then(|listener| listener.local_addr())
\* .map(|addr| addr.port()); the closure owns the listener and drops it
\* when it returns, whatever local_addr() answered.
ListenerLocalAddr ==
    /\ pc = "local_addr"
    /\ listener' = 0
    /\ \/ /\ local_port' = listener
          /\ pc' = "store_port"
          /\ UNCHANGED <<result, nOk, readyPort>>
       \/ /\ StartReturns(Err(ErrPort))
          /\ UNCHANGED local_port
    /\ UNCHANGED <<child, port, attempt, alive, spawned, dropped, lastCall, prevCall,
                   done, requests, sleeps, lastResp, callChild, ncalls,
                   nstarts, stopped, kills, refused,
                   childEnv, failures>>

\* Mutant of StorePort: the port is not stored in the struct.
StorePortSkipped ==
    /\ pc = "store_port"
    /\ pc' = "get_backend_path"
    /\ UNCHANGED <<child, port, local_port, listener, attempt, alive, spawned,
                   dropped, lastCall, prevCall, result, done, requests, sleeps, lastResp,
                   callChild, ncalls, nstarts, nOk, readyPort, stopped, kills,
                   refused,
                   childEnv, failures>>

\* self.port = port
StorePort ==
    /\ pc = "store_port"
    /\ port' = local_port
    /\ pc' = "get_backend_path"
    /\ UNCHANGED <<child, local_port, listener, attempt, alive, spawned,
                   dropped, lastCall, prevCall, result, done, requests, sleeps, lastResp,
                   callChild, ncalls, nstarts, nOk, readyPort, stopped, kills,
                   refused,
                   childEnv, failures>>

\* let backend_exe = Self::get_backend_path(app_handle)?
GetBackendPath ==
    /\ pc = "get_backend_path"
    /\ done' = done \cup {"get_backend_path"}
    /\ \/ /\ pc' = "app_data_dir"
          /\ UNCHANGED <<result, nOk, readyPort>>
       \/ StartReturns(Err(ErrResourceDir))
    /\ UNCHANGED <<child, port, local_port, listener, attempt, alive, spawned,
                   dropped, lastCall, prevCall, requests, sleeps, lastResp, callChild,
                   ncalls, nstarts, stopped, kills, refused,
                   childEnv, failures>>

\* let app_data_dir = app_handle.path().app_data_dir().map_err(..)?
AppDataDir ==
    /\ pc = "app_data_dir"
    /\ done' = done \cup {"app_data_dir"}
    /\ \/ /\ pc' = "create_dir_all"
          /\ UNCHANGED <<result, nOk, readyPort>>
       \/ StartReturns(Err(ErrAppDataDir))
    /\ UNCHANGED <<child, port, local_port, listener, attempt, alive, spawned,
                   dropped, lastCall, prevCall, requests, sleeps, lastResp, callChild,
                   ncalls, nstarts, stopped, kills, refused,
                   childEnv, failures>>

\* Mutant of CreateDirAll: the result of create_dir_all is tested only
\* after the spawn, so a failed creation is reported with a child running.
CreateDirAllCheckedLate ==
    /\ pc = "create_dir_all"
    /\ \/ /\ pc' = "spawn"
          /\ done' = done \cup {"create_dir_all"}
          /\ UNCHANGED <<result, nOk, readyPort, child, alive, spawned,
                         callChild>>
       \/ /\ StartReturns(Err(ErrCreateDir))
          /\ done' = done \cup {"create_dir_all", "spawn"}
          /\ spawned' = spawned \cup {Cardinality(spawned) + 1}
          /\ alive' = alive \cup {Cardinality(spawned) + 1}
          /\ callChild' = Cardinality(spawned) + 1
          /\ child' = Cardinality(spawned) + 1
    /\ UNCHANGED <<port, local_port, listener, attempt, dropped, lastCall,
                   prevCall, requests, sleeps, lastResp, ncalls, nstarts,
                   stopped, kills, refused,
                   childEnv, failures>>

\* std::fs::create_dir_all(&app_data_dir).map_err(..)?
CreateDirAll ==
    /\ pc = "create_dir_all"
    /\ done' = done \cup {"create_dir_all"}
    /\ \/ /\ pc' = "spawn"
          /\ UNCHANGED <<result, nOk, readyPort>>
       \/ StartReturns(Err(ErrCreateDir))
    /\ UNCHANGED <<child, port, local_port, listener, attempt, alive, spawned,
                   dropped, lastCall, prevCall, requests, sleeps, lastResp, callChild,
                   ncalls, nstarts, stopped, kills, refused,
                   childEnv, failures>>

\* The id of the next child process.
NextChild == Cardinality(spawned) + 1

\* let child = Command::new(..).env(..).spawn().map_err(..)?;
\* self.child = Some(child);
\* app_data_dir() answers the data directory of this install.
\* The assignment drops the Child held before; dropping a Child neither
\* kills nor waits for the process.
SpawnChild ==
    /\ pc = "spawn"
    /\ done' = done \cup {"spawn"}
    /\ \/ /\ spawned' = spawned \cup {NextChild}
          /\ alive' = alive \cup {NextChild}
          /\ callChild' = NextChild
          /\ child' = NextChild
          /\ childEnv' = ChildEnv(local_port, InstallDataDir)
          /\ pc' = "build_client"
          /\ UNCHANGED <<result, nOk, readyPort>>
       \/ /\ StartReturns(Err(ErrSpawn))
          /\ UNCHANGED <<spawned, alive, callChild, child, childEnv>>
    /\ UNCHANGED <<port, local_port, listener, attempt, dropped, lastCall, prevCall,
                   requests, sleeps, lastResp, ncalls, nstarts, stopped, kills,
                   refused, failures>>

\* ------------------------------------------------------ wait_for_backend
\* reqwest::blocking::Client::builder().timeout(2 s).build().map_err(..)?
\* and the entry of the loop `for attempt in 1..=60`.
BuildClient ==
    /\ pc = "build_client"
    /\ done' = done \cup {"wait_for_backend"}
    /\ \/ /\ attempt' = 1
          /\ pc' = "sleep"
          /\ UNCHANGED <<result, nOk, readyPort>>
       \/ /\ StartReturns(Err(ErrClient))
          /\ UNCHANGED attempt
    /\ UNCHANGED <<child, port, local_port, listener, alive, spawned, dropped,
                   lastCall, prevCall, requests, sleeps, lastResp, callChild, ncalls,
                   nstarts, stopped, kills, refused,
                   childEnv, failures>>

\* thread::sleep(Duration::from_millis(500)); the response of the previous
\* iteration went out of scope when that iteration ended.
Sleep ==
    /\ pc = "sleep"
    /\ sleeps' = sleeps + 1
    /\ lastResp' = NoResp
    /\ pc' = "send"
    /\ UNCHANGED <<child, port, local_port, listener, attempt, alive, spawned,
                   dropped, lastCall, prevCall, result, done, requests,
                   callChild, ncalls, nstarts, nOk, readyPort, stopped, kills,
                   refused,
                   childEnv, failures>>

\* Mutant of Verdict: the first failed request ends the poll.
VerdictFailFast(r, n) ==
    IF IsAlive(r) THEN "return"
    ELSE "fail"

\* Mutant of Verdict: the loop bound is off by one (1..=60 taken as 0..=60).
VerdictOneMore(r, n) ==
    IF IsAlive(r) THEN "return"
    ELSE IF n <= MaxAttempts THEN "retry"
    ELSE "fail"

\* What wait_for_backend does with the outcome r of request number `attempt`:
\* "return" (Ok), "retry" (next iteration) or "fail" (loop over, Err).
Verdict(r, n) ==
    IF IsAlive(r) THEN "return"
    ELSE IF n < MaxAttempts THEN "retry"
    ELSE "fail"

\* client.get(&url).send() and the test of its outcome; on Ok(()) start()
\* returns Ok(port), on Err the `?` of start() returns it.
SendRequest ==
    /\ pc = "send"
    /\ \E r \in Responses :
        /\ requests' = requests + 1
        /\ lastResp' = r
        /\ failures' = failures + (IF Is2xxOr404(r) THEN 0 ELSE 1)
        /\ CASE Verdict(r, attempt) = "return" ->
                    /\ StartReturns(Ok(local_port))
                    /\ UNCHANGED attempt
             [] Verdict(r, attempt) = "retry" ->
                    /\ attempt' = attempt + 1
                    /\ pc' = "sleep"
                    /\ UNCHANGED <<result, nOk, readyPort>>
             [] OTHER ->
                    /\ StartReturns(Err(ErrHealth))
                    /\ UNCHANGED attempt
    /\ UNCHANGED <<child, port, local_port, listener, alive, spawned, dropped,
                   lastCall, prevCall, done, sleeps, callChild, ncalls, nstarts, stopped,
                   kills, refused,
                   childEnv>>

\* ------------------------------------------------------------------ stop
\* Mutant of StopBody: the child is borrowed (as_mut) instead of taken, so
\* the kill is sent but the handle stays.
StopBodyKeepsHandle(killOk) ==
    IF child # NoChild
    THEN /\ child' = child
         /\ kills' = kills + 1
         /\ alive' = IF killOk THEN alive \ {child} ELSE alive
         /\ refused' = IF killOk THEN refused ELSE refused \cup {child}
    ELSE UNCHANGED <<child, kills, alive, refused>>

\* Mutant of StopBody: the handle is cleared only if the kill succeeded.
StopBodyKeepsOnKillError(killOk) ==
    IF child # NoChild
    THEN /\ child' = IF killOk THEN NoChild ELSE child
         /\ kills' = kills + 1
         /\ alive' = IF killOk THEN alive \ {child} ELSE alive
         /\ refused' = IF killOk THEN refused ELSE refused \cup {child}
    ELSE UNCHANGED <<child, kills, alive, refused>>

\* The body of stop(): if let Some(mut child) = self.child.take()
\* { let _ = child.kill(); }   killOk is the outcome of kill().
StopBody(killOk) ==
    IF child # NoChild
    THEN /\ child' = NoChild
         /\ kills' = kills + 1
         /\ alive' = IF killOk THEN alive \ {child} ELSE alive
         /\ refused' = IF killOk THEN refused ELSE refused \cup {child}
    ELSE UNCHANGED <<child, kills, alive, refused>>

\* Mutant of Stop: stop() also resets the port.
StopResetsPort ==
    /\ CanCall
    /\ NewCall("stop")
    /\ \E killOk \in BOOLEAN : StopBody(killOk)
    /\ result' = Unit
    /\ stopped' = (stopped \/ nstarts > 0)
    /\ port' = 0
    /\ UNCHANGED <<pc, local_port, listener, spawned, dropped, nstarts, nOk,
                   readyPort, childEnv>>

\* A caller calls stop(&mut self).
Stop ==
    /\ CanCall
    /\ NewCall("stop")
    /\ \E killOk \in BOOLEAN : StopBody(killOk)
    /\ result' = Unit
    /\ stopped' = (stopped \/ nstarts > 0)
    /\ UNCHANGED <<port, pc, local_port, listener, spawned, dropped, nstarts,
                   nOk, readyPort, childEnv>>

\* impl Drop for BackendProcess: self.stop(), then the object is gone.
Drop ==
    /\ pc = "idle"
    /\ ~dropped
    /\ \E killOk \in BOOLEAN : StopBody(killOk)
    /\ dropped' = TRUE
    /\ NewCall("drop")
    /\ result' = Unit
    /\ UNCHANGED <<port, pc, local_port, listener, spawned, nstarts, nOk,
                   readyPort, stopped,
                   childEnv>>

\* ------------------------------------------------------------- accessor
\* get_backend_port: Ok(backend.port)
GetBackendPort ==
    /\ CanCall
    /\ NewCall("port")
    /\ result' = Ok(port)
    /\ UNCHANGED <<child, port, pc, local_port, listener, alive, spawned,
                   dropped, nstarts, nOk, readyPort, stopped, kills, refused,
                   childEnv>>

\* ----------------------------------------------------------- environment
\* A child process exits by itself.
ChildExit ==
    /\ \E c \in alive : alive' = alive \ {c}
    /\ UNCHANGED <<child, port, pc, local_port, listener, attempt, spawned,
                   dropped, lastCall, prevCall, result, done, requests, sleeps, lastResp,
                   callChild, ncalls, nstarts, nOk, readyPort, stopped, kills,
                   refused,
                   childEnv, failures>>

\* ------------------------------------------------------------------ Next
StartStep ==
    \/ TcpListenerBind
    \/ ListenerLocalAddr
    \/ StorePort
    \/ GetBackendPath
    \/ AppDataDir
    \/ CreateDirAll
    \/ SpawnChild
    \/ BuildClient
    \/ Sleep
    \/ SendRequest

\* Spec: the operations alone; what belongs to the other specifications
\* stays as it is.
Next ==
    \/ StartCall /\ UNCHANGED nonApi
    \/ TcpListenerBind /\ UNCHANGED nonApi
    \/ ListenerLocalAddr /\ UNCHANGED nonApi
    \/ StorePort /\ UNCHANGED nonApi
    \/ GetBackendPath /\ UNCHANGED nonApi
    \/ AppDataDir /\ UNCHANGED nonApi
    \/ CreateDirAll /\ UNCHANGED nonApi
    \/ SpawnChild /\ UNCHANGED nonApi
    \/ BuildClient /\ UNCHANGED nonApi
    \/ Sleep /\ UNCHANGED nonApi
    \/ SendRequest /\ UNCHANGED nonApi
    \/ Stop /\ UNCHANGED nonApi
    \/ Drop /\ UNCHANGED nonApi
    \/ GetBackendPort /\ UNCHANGED nonApi
    \/ ChildExit /\ UNCHANGED nonApi

Spec == Init /\ [][Next]_vars

\* start() terminates: once called, its steps are taken until it returns
\* (the thread that called it keeps running).
LiveSpec == Init /\ [][Next]_vars /\ WF_vars(StartStep /\ UNCHANGED nonApi)

\* --------------------------------------------------------------- EnvSpec
\* The construction of the child's environment, for any data directory
\* and any port.
EnvInit ==
    /\ New
    /\ envIn \in [dir : DataDirs, port : EnvPorts]
    /\ envOut = NoEnv
    /\ NoHost
    /\ debug_assertions = FALSE

\* The .env(..) calls of start() on the directory and port of envIn.
BuildEnv ==
    /\ envOut = NoEnv
    /\ envOut' = ChildEnv(envIn.port, envIn.dir)
    /\ UNCHANGED <<child, port, pc, local_port, listener, attempt, alive,
                   spawned, dropped, lastCall, prevCall, result, done,
                   requests, sleeps, lastResp, callChild, ncalls, nstarts,
                   nOk, readyPort, stopped, kills, refused, childEnv,
                   failures, envIn, hvars>>

EnvSpec == EnvInit /\ [][BuildEnv]_vars

\* -------------------------------------------------------------- HostSpec
\* main(): the setup closure builds the BackendProcess (starting it in a
\* release build), publishes the port to the window and shares the
\* BackendProcess behind a Mutex; get_backend_port commands then run
\* concurrently.  The build mode is fixed at compile time.
HostInit ==
    /\ New
    /\ envIn = [dir |-> InstallDataDir, port |-> 0]
    /\ envOut = NoEnv
    /\ NoHost
    /\ debug_assertions \in BOOLEAN

\* let window = app.get_webview_window("main").ok_or(..)?
GetWebviewWindow ==
    /\ setup = "window"
    /\ \/ setup' = "config"
       \/ setup' = "err_window"
    /\ UNCHANGED <<bvars, evars, debug_assertions, setup_port, window_port,
                   owner, cmd, elapsed>>

\* get_backend_config of a debug build: Ok((8000, BackendProcess::new()))
GetBackendConfigDebug ==
    /\ setup = "config"
    /\ debug_assertions
    /\ setup_port' = DebugPort
    /\ setup' = "inject"
    /\ UNCHANGED <<bvars, evars, debug_assertions, window_port, owner, cmd,
                   elapsed>>

\* get_backend_config of a release build: BackendProcess::new() and the
\* call backend.start(..).
GetBackendConfigStart ==
    /\ setup = "config"
    /\ ~debug_assertions
    /\ StartCall
    /\ setup' = "start"
    /\ UNCHANGED <<evars, debug_assertions, setup_port, window_port, owner,
                   cmd, elapsed>>

\* A step of start() that is no part of the poll takes no time here.
Untimed(A) ==
    /\ setup = "start"
    /\ A
    /\ UNCHANGED <<evars, hvars>>

\* thread::sleep(Duration::from_millis(500)) takes 500 ms.
TimedSleep ==
    /\ setup = "start"
    /\ Sleep
    /\ elapsed' = elapsed + DelayMs
    /\ UNCHANGED <<evars, hfix>>

\* Time a request may take: none to speak of, or the client's timeout.
Durations == {0, RequestTimeoutMs}

\* A request takes up to the client's timeout of 2 s, and all of it when
\* it times out.
TimedSendRequest ==
    /\ setup = "start"
    /\ SendRequest
    /\ \E d \in Durations :
          /\ lastResp'.kind = "timeout" => d = RequestTimeoutMs
          /\ elapsed' = elapsed + d
    /\ UNCHANGED <<evars, hfix>>

\* Release build: start() returned Ok(port); Ok((port, backend)).
GetBackendConfigOk ==
    /\ setup = "start"
    /\ pc = "idle"
    /\ result.tag = "ok"
    /\ setup_port' = result.val
    /\ setup' = "inject"
    /\ elapsed' = 0
    /\ UNCHANGED <<bvars, evars, debug_assertions, window_port, owner, cmd>>

\* Release build: start() returned Err; the `?` of get_backend_config
\* and the one of the setup closure return it, and the local `backend`
\* is dropped on the way.
GetBackendConfigErr ==
    /\ setup = "start"
    /\ pc = "idle"
    /\ result.tag = "err"
    /\ Drop
    /\ setup' = "err_config"
    /\ elapsed' = 0
    /\ UNCHANGED <<evars, debug_assertions, setup_port, window_port, owner,
                   cmd>>

\* Mutant of InjectBackendPort: the BackendProcess outlives a failed
\* injection (it is not dropped on the error path).
InjectBackendPortLeaks ==
    /\ setup = "inject"
    /\ \/ /\ window_port' = setup_port
          /\ setup' = "manage"
       \/ /\ setup' = "err_inject"
          /\ UNCHANGED window_port
    /\ UNCHANGED <<bvars, evars, debug_assertions, setup_port, owner, cmd,
                   elapsed>>

\* inject_backend_port(&window, port)?  window.eval sets the global of the
\* window; if it fails the closure returns the error and its local
\* `backend` is dropped.
InjectBackendPort ==
    /\ setup = "inject"
    /\ \/ /\ window_port' = setup_port
          /\ setup' = "manage"
          /\ UNCHANGED bvars
       \/ /\ Drop
          /\ setup' = "err_inject"
          /\ UNCHANGED window_port
    /\ UNCHANGED <<evars, debug_assertions, setup_port, owner, cmd, elapsed>>

\* app.manage(AppState { backend: Mutex::new(backend) }); Ok(())
AppManage ==
    /\ setup = "manage"
    /\ setup' = "ok"
    /\ UNCHANGED <<bvars, evars, debug_assertions, setup_port, window_port,
                   owner, cmd, elapsed>>

\* Mutant of GetBackendPortLock: the BackendProcess is reached without
\* waiting for the Mutex.
GetBackendPortNoWait(t) ==
    /\ setup = "ok"
    /\ CanCall
    /\ cmd[t] = "idle"
    /\ owner' = t
    /\ cmd' = [cmd EXCEPT ![t] = "locked"]
    /\ UNCHANGED <<bvars, evars, debug_assertions, setup, setup_port,
                   window_port, elapsed>>

\* get_backend_port: state.backend.lock() returns the guard once no other
\* invocation holds the Mutex.
GetBackendPortLock(t) ==
    /\ setup = "ok"
    /\ CanCall
    /\ cmd[t] = "idle"
    /\ owner = 0
    /\ owner' = t
    /\ cmd' = [cmd EXCEPT ![t] = "locked"]
    /\ UNCHANGED <<bvars, evars, debug_assertions, setup, setup_port,
                   window_port, elapsed>>

\* get_backend_port: Ok(backend.port); the guard is dropped at the return.
GetBackendPortReturn(t) ==
    /\ cmd[t] = "locked"
    /\ GetBackendPort
    /\ owner' = IF owner = t THEN 0 ELSE owner
    /\ cmd' = [cmd EXCEPT ![t] = "idle"]
    /\ UNCHANGED <<evars, debug_assertions, setup, setup_port, window_port,
                   elapsed>>

HostNext ==
    \/ GetWebviewWindow
    \/ GetBackendConfigDebug
    \/ GetBackendConfigStart
    \/ Untimed(TcpListenerBind)
    \/ Untimed(ListenerLocalAddr)
    \/ Untimed(StorePort)
    \/ Untimed(GetBackendPath)
    \/ Untimed(AppDataDir)
    \/ Untimed(CreateDirAll)
    \/ Untimed(SpawnChild)
    \/ Untimed(BuildClient)
    \/ TimedSleep
    \/ TimedSendRequest
    \/ GetBackendConfigOk
    \/ GetBackendConfigErr
    \/ InjectBackendPort
    \/ AppManage
    \/ \E t \in Callers : GetBackendPortLock(t)
    \/ \E t \in Callers : GetBackendPortReturn(t)
    \/ ChildExit /\ UNCHANGED nonApi

HostSpec == HostInit /\ [][HostNext]_vars

\* ---------------------------------------------------------------- states
\* start() has returned r and nothing has been called since.
StartReturned == pc = "idle" /\ lastCall = "start"

\* Errors of the steps of start() that precede the health poll's client.
EarlyErrors == {ErrPort, ErrResourceDir, ErrAppDataDir, ErrCreateDir, ErrSpawn}

\* The steps start() has executed when it fails with the early error m.
StepsUpTo(m) ==
    CASE m = ErrPort -> {"find_available_port"}
      [] m = ErrResourceDir -> {"find_available_port", "get_backend_path"}
      [] m = ErrAppDataDir ->
            {"find_available_port", "get_backend_path", "app_data_dir"}
      [] m = ErrCreateDir ->
            {"find_available_port", "get_backend_path", "app_data_dir",
             "create_dir_all"}
      [] OTHER ->
            {"find_available_port", "get_backend_path", "app_data_dir",
             "create_dir_all", "spawn"}

\* A 2xx or 404 response, as the specification words it.
SpecAlive(r) ==
    r.kind = "resp" /\ (r.code \in 200..299 \/ r.code = 404)

\* ------------------------------------------------------------------- C1
\* C1: when start() has returned the health-check error, the child that
\* call spawned is no longer running and the handle is cleared.
C1_KilledBeforeHealthError ==
    (StartReturned /\ result = Err(ErrHealth))
        => (callChild \notin alive /\ child = NoChild)

\* ------------------------------------------------------------------- C2
\* C2: at most one child spawned by the Supervisor is alive at any time
\* (a child whose kill the operating system refused is not counted).
C2_AtMostOneAlive == Cardinality(alive \ refused) <= 1

\* ------------------------------------------------------------------- C3
\* C3: after the Supervisor has been destroyed it holds no handle and no
\* child it spawned is left running (a child whose kill the operating
\* system refused is not counted).
C3_NoChildAfterDrop == dropped => (child = NoChild /\ alive \subseteq refused)

\* ------------------------------------------------------------------- C4
\* C4: stop() is idempotent: every stop() returns normally, leaves the
\* handle absent and the port as it was, and sends one kill if a handle was
\* present; a stop() that finds no handle, as every stop() directly after a
\* stop() does, sends no kill and changes nothing.
C4_StopIdempotent ==
    [][(lastCall' = "stop" /\ ncalls' = ncalls + 1) =>
          /\ child' = NoChild
          /\ result' = Unit
          /\ pc' = "idle"
          /\ port' = port
          /\ (child # NoChild => kills' = kills + 1)
          /\ (lastCall = "stop" => child = NoChild)
          /\ (child = NoChild =>
                UNCHANGED <<child, port, alive, spawned, kills, refused>>)
      ]_vars

\* C4 witness: a second stop() directly after a stop() that sent a kill.
C4_Witness ==
    /\ prevCall = "stop"
    /\ lastCall = "stop"
    /\ kills = 1
    /\ child = NoChild
    /\ port # 0

\* ------------------------------------------------------------------- C5
\* C5: the port is 0 while start() was never called; a successful start()
\* returns a non-zero port, which the port field holds from then on
\* through every stop() and read; the accessor returns the port field.
C5_PortAccessor ==
    /\ (nstarts = 0 => port = 0)
    /\ ((StartReturned /\ result.tag = "ok") =>
            (result.val # 0 /\ readyPort = result.val))
    /\ (readyPort # 0 => port = readyPort)
    /\ ((lastCall = "port" /\ ~dropped) => result = Ok(port))

\* C5 witness: a read after a stop() after a successful start() returns
\* the port that start() returned.
C5_Witness ==
    /\ lastCall = "port"
    /\ prevCall = "stop"
    /\ readyPort # 0
    /\ result = Ok(readyPort)
    /\ child = NoChild

\* ------------------------------------------------------------------- C6
\* C6: start() returns Ok exactly on a 2xx or 404 response, at the first
\* one, with the handle of the child it spawned kept and the allocated
\* port as its value; after any other outcome, while attempts remain, the
\* poll goes on to the next attempt and reports no error.
C6_AliveIs2xxOr404 ==
    lastCall = "start" =>
        /\ (pc = "idle" /\ result.tag = "ok") =>
              /\ SpecAlive(lastResp)
              /\ requests = attempt
              /\ child = callChild
              /\ child # NoChild
              /\ result.val = port
              /\ port = local_port
        /\ SpecAlive(lastResp) => (pc = "idle" /\ result.tag = "ok")
        /\ (lastResp # NoResp /\ ~SpecAlive(lastResp)
                /\ requests < MaxAttempts) =>
              /\ pc = "sleep"
              /\ result = Pending
              /\ attempt = requests + 1

\* C6 witness: start() has returned Ok on a 404 that followed a failure.
C6_Witness ==
    /\ StartReturned
    /\ result.tag = "ok"
    /\ lastResp = [kind |-> "resp", code |-> 404]
    /\ requests = 2
    /\ child \in alive

\* ------------------------------------------------------------------- C7
\* C7: a poll that gets no alive response sends exactly MaxAttempts
\* requests, one sleep before each, never one more, and then start()
\* returns the health-check error, which it returns in no other case.
C7_PollSafety ==
    /\ requests <= MaxAttempts
    /\ sleeps = requests + (IF pc = "send" THEN 1 ELSE 0)
    /\ (pc \in {"sleep", "send"} => attempt \in 1..MaxAttempts)
    /\ (lastCall = "start" /\ result = Err(ErrHealth)) =>
          /\ requests = MaxAttempts
          /\ sleeps = MaxAttempts
          /\ ~SpecAlive(lastResp)
    /\ (lastCall = "start" /\ requests = MaxAttempts
            /\ ~SpecAlive(lastResp)) =>
          (pc = "idle" /\ result = Err(ErrHealth))

\* C7: the safety part above, and the poll always terminates: a start()
\* that is running returns.
C7_PollTerminates == []C7_PollSafety /\ ((pc # "idle") ~> (pc = "idle"))

\* C7 witness: start() has returned the health-check error after
\* MaxAttempts requests.
C7_Witness ==
    /\ StartReturned
    /\ result = Err(ErrHealth)
    /\ requests = MaxAttempts
    /\ sleeps = MaxAttempts

\* ------------------------------------------------------------------- C8
\* C8: a start() that fails at port allocation, path resolution, directory
\* creation or spawn has executed the steps up to the failing one and no
\* later one: it spawned no child and sent no health request; if it was
\* the first start() of the Supervisor, no child exists and no handle is
\* held.
C8_EarlyFailureAborts ==
    (StartReturned /\ result.tag = "err" /\ result.msg \in EarlyErrors) =>
        /\ done = StepsUpTo(result.msg)
        /\ callChild = NoChild
        /\ requests = 0
        /\ sleeps = 0
        /\ listener = 0
        /\ (nstarts = 1 => (child = NoChild /\ spawned = {} /\ alive = {}))

\* C8 witness: the first start() has failed at directory creation.
C8_Witness ==
    /\ StartReturned
    /\ result = Err(ErrCreateDir)
    /\ nstarts = 1
    /\ port # 0

\* ------------------------------------------------------------------- C9
\* C9: once stop() has been called on a started Supervisor, no later step
\* spawns a child, sets a handle or changes the port.
C9_StoppedTerminal ==
    [][stopped =>
          (spawned' = spawned /\ child' = NoChild /\ port' = port)]_vars

\* ------------------------------------------------------------------ C10
\* C10: the allocator's socket exists only inside find_available_port:
\* from its return until the child is spawned, and in every other state,
\* the Supervisor holds no socket bound to the allocated port.
C10_SocketReleased ==
    /\ (listener # 0 => pc = "local_addr")
    /\ (pc \in {"store_port", "get_backend_path", "app_data_dir",
                "create_dir_all", "spawn"} =>
            (listener = 0 /\ local_port \in PortSet))

\* C10 witness: the port is allocated, the child is about to be spawned.
C10_Witness ==
    /\ pc = "spawn"
    /\ local_port \in PortSet
    /\ port = local_port
    /\ listener = 0

\* ------------------------------------------------------------------ C11
\* The value of a decimal digit.
DigitVal(c) == CHOOSE i \in 0..9 : DigitChars[i + 1] = c

\* str::parse::<u16> of a string of decimal digits (what the child does
\* with SUZENT_PORT).
RECURSIVE ParseDec(_)
ParseDec(s) ==
    IF s = <<>> THEN 0
    ELSE 10 * ParseDec(SubSeq(s, 1, Len(s) - 1)) + DigitVal(s[Len(s)])

\* Path p lies below directory d.
RootedUnder(p, d) == Len(d) < Len(p) /\ SubSeq(p, 1, Len(d)) = d

\* C11: for every data directory D and port p, the environment built for
\* the child has the port p, the host 127.0.0.1, the data directory D, and
\* the database, vector store, sandbox and skills paths equal to D joined
\* with chats.db, memory, sandbox-data and skills, all below D.
C11_ChildEnv ==
    envOut # NoEnv =>
        /\ ParseDec(envOut.SUZENT_PORT) = envIn.port
        /\ envOut.SUZENT_HOST = "127.0.0.1"
        /\ envOut.SUZENT_APP_DATA = envIn.dir
        /\ envOut.CHATS_DB_PATH = Append(envIn.dir, "chats.db")
        /\ envOut.LANCEDB_URI = Append(envIn.dir, "memory")
        /\ envOut.SANDBOX_DATA_PATH = Append(envIn.dir, "sandbox-data")
        /\ envOut.SKILLS_DIR = Append(envIn.dir, "skills")
        /\ \A k \in {"CHATS_DB_PATH", "LANCEDB_URI", "SANDBOX_DATA_PATH",
                     "SKILLS_DIR"} : RootedUnder(envOut[k], envIn.dir)

\* C11 witness: the environment built for port 65535 and a two-level data
\* directory whose name has a space.
C11_Witness ==
    /\ envIn = [dir |-> <<"home", "my data">>, port |-> 65535]
    /\ envOut.SUZENT_PORT = <<"6", "5", "5", "3", "5">>
    /\ envOut.LANCEDB_URI = <<"home", "my data", "memory">>

\* ------------------------------------------------------------------ C12
\* C12: whenever a child handle is held, the stored port is the port that
\* child was given in its environment when it was spawned.
C12_PortIsChildsPort ==
    child # NoChild => ParseDec(childEnv.SUZENT_PORT) = port

\* ------------------------------------------------------------------ C13
\* C13 as stated: the port is 0 exactly when the Supervisor has not been
\* started: while no call runs and no child was ever spawned (Idle, also
\* after a start() that aborted) the port is 0, and a non-zero port implies
\* a start() call.
C13_PortZeroIffNotStarted ==
    /\ ((pc = "idle" /\ spawned = {}) => port = 0)
    /\ (port # 0 => nstarts > 0)

\* C13 amended: the port is 0 until a start() has passed port allocation.
\* Before any start() the port is 0, and so it is after a first start()
\* that failed at the allocation; every start() that returned anything
\* else, an abort at a later step included, has left the port it allocated
\* (non-zero) in the struct.  A first start() that aborted before a child
\* was spawned (path resolution, directory creation, spawn) has left that
\* non-zero port although nothing was ever spawned and no handle is held.
C13_PortZeroUntilAllocated ==
    /\ port \in PortSet \cup {0}
    /\ 0 \notin PortSet
    /\ (nstarts = 0 => port = 0)
    /\ ((StartReturned /\ result = Err(ErrPort) /\ nstarts = 1) => port = 0)
    /\ ((StartReturned /\ result # Err(ErrPort)) =>
            (port \in PortSet /\ port = local_port))
    /\ ((StartReturned /\ nstarts = 1 /\ result.tag = "err"
            /\ result.msg \in {ErrResourceDir, ErrAppDataDir, ErrCreateDir,
                               ErrSpawn}) =>
            (port \in PortSet /\ spawned = {} /\ child = NoChild
             /\ callChild = NoChild /\ nOk = 0))

\* C13 witness: the first start() aborted at the path resolution; nothing
\* was spawned and the allocated port is stored.
C13_Witness ==
    /\ StartReturned
    /\ result = Err(ErrResourceDir)
    /\ nstarts = 1
    /\ spawned = {}
    /\ child = NoChild
    /\ port \in PortSet

\* ------------------------------------------------------------------ C14
\* C14: failed health requests are not surfaced one by one: while the poll
\* runs start() has not returned; it returns Ok after exactly k <= 60
\* requests of which the first k-1 failed and the k-th got a 2xx or 404;
\* it returns the health-check error only after 60 requests that all failed.
C14_TransientNotSurfaced ==
    /\ (pc \in {"sleep", "send"} =>
            (result = Pending /\ failures = requests /\ requests < 60))
    /\ ((StartReturned /\ result.tag = "ok") =>
            /\ requests \in 1..60
            /\ requests = attempt
            /\ failures = requests - 1
            /\ SpecAlive(lastResp))
    /\ ((StartReturned /\ result = Err(ErrHealth)) =>
            (requests = 60 /\ failures = 60))
    /\ ((StartReturned /\ result.tag = "err" /\ result # Err(ErrHealth)) =>
            requests = 0)

\* C14 witness: 59 requests failed and the 60th was answered with 404.
C14_Witness ==
    /\ StartReturned
    /\ result.tag = "ok"
    /\ requests = 60
    /\ failures = 59
    /\ lastResp = [kind |-> "resp", code |-> 404]

\* ------------------------------------------------------------------ C16
\* C16: a stop() or a destruction whose kill reports an error still returns
\* normally, with the handle cleared.
C16_KillErrorSwallowed ==
    [][(refused' # refused) =>
          /\ lastCall' \in {"stop", "drop"}
          /\ child # NoChild
          /\ refused' = refused \cup {child}
          /\ child' = NoChild
          /\ result' = Unit
          /\ pc' = "idle"
          /\ (lastCall' = "drop" => dropped')
      ]_vars

\* C16 witness: the Supervisor was destroyed right after a start(), the
\* kill of the destruction failed (the child still runs), and the
\* destruction completed with the handle cleared.
C16_Witness ==
    /\ dropped
    /\ prevCall = "start"
    /\ lastCall = "drop"
    /\ refused # {}
    /\ refused \subseteq alive
    /\ child = NoChild
    /\ result = Unit

\* ------------------------------------------------------------------ C15
\* C15: a poll that never succeeds keeps the caller of start() blocked for
\* at most delay x max_attempts = 500 ms x 60 = 30 000 ms, each request
\* taking up to its 2 s timeout.
C15_PollWithinBudget ==
    (setup = "start" /\ StartReturned /\ result = Err(ErrHealth))
        => elapsed <= 500 * 60

\* ------------------------------------------------------------------ C17
\* The invocations of get_backend_port that are inside the critical section.
InCritical == {t \in Callers : cmd[t] = "locked"}

\* C17: once the BackendProcess is shared, it is read only by the
\* invocation that holds the Mutex; at most one invocation is inside the
\* critical section; an invocation holds the Mutex exactly while it is
\* inside, so the Mutex is free after every return; and the holder can
\* always return, so no later invocation waits forever.
C17_LockDiscipline ==
    /\ [](/\ Cardinality(InCritical) <= 1
          /\ owner \in Callers \cup {0}
          /\ \A t \in Callers : (cmd[t] = "locked") <=> (owner = t)
          /\ (owner # 0 => setup = "ok")
          /\ (owner # 0 => ENABLED GetBackendPortReturn(owner)))
    /\ [][(setup = "ok" /\ bvars' # bvars /\ alive' = alive) =>
              /\ owner # 0
              /\ owner' = 0
              /\ cmd' = [cmd EXCEPT ![owner] = "idle"]
              /\ result' = Ok(port)
              /\ port' = port
         ]_vars

\* C17 witness: one invocation has returned the port and released the
\* Mutex, the other one holds it now.
C17_Witness ==
    /\ setup = "ok"
    /\ lastCall = "port"
    /\ result = Ok(port)
    /\ owner = 2
    /\ cmd = [t \in Callers |-> IF t = 2 THEN "locked" ELSE "idle"]
    /\ child # NoChild

\* ------------------------------------------------------------------ C18
\* C18: in both build modes, the port published to the window at startup
\* is what get_backend_port returns at every later time.
C18_PublishedIsAccessor ==
    (setup = "ok" /\ lastCall = "port") => result = Ok(window_port)

\* ------------------------------------------------------------------ C19
\* C19: if publishing the port to the window fails, the BackendProcess is
\* destroyed before setup returns the error: the handle is cleared and the
\* child a release build spawned was sent a kill (it runs on only if the
\* operating system refused the kill); if the main window is not found,
\* start() is never called and nothing is spawned.
C19_SetupFailureCleansUp ==
    /\ (setup = "err_inject" =>
            /\ dropped
            /\ child = NoChild
            /\ window_port = 0
            /\ alive \subseteq refused
            /\ (~debug_assertions =>
                    (Cardinality(spawned) = 1 /\ kills = 1 /\ nOk = 1)))
    /\ (setup = "err_window" =>
            (nstarts = 0 /\ spawned = {} /\ child = NoChild /\ port = 0))

\* C19 witness: a release build whose injection failed after start() had
\* returned Ok with the child running; the child was killed.
C19_Witness ==
    /\ setup = "err_inject"
    /\ ~debug_assertions
    /\ spawned = {1}
    /\ alive = {}
    /\ kills = 1
    /\ refused = {}
    /\ setup_port = port

\* ------------------------------------------------------------------ C20
\* C20 as stated: start() returns success only if the child it spawned is
\* still running at that moment.
C20_ReadyMeansChildRunning ==
    (StartReturned /\ result.tag = "ok") => callChild \in alive

\* C20 amended: start() returns success only when a request to the
\* allocated port was answered with a 2xx or 404 while the handle of the
\* child this call spawned, which was given that port, is held; whether
\* that child still runs, or answered, is not checked.
C20_ReadyMeansAnswerOnPort ==
    (StartReturned /\ result.tag = "ok") =>
        /\ SpecAlive(lastResp)
        /\ callChild # NoChild
        /\ child = callChild
        /\ result.val = port
        /\ ParseDec(childEnv.SUZENT_PORT) = result.val

\* C20 witness: the child exited during the poll and start() returned Ok.
C20_Witness ==
    /\ StartReturned
    /\ result.tag = "ok"
    /\ callChild # NoChild
    /\ callChild \notin alive
    /\ child = callChild
    /\ kills = 0

====
